---------------------------- MODULE Spec2Model ----------------------------
(***************************************************************************)
(* A model of stemmogram.py: the stem cache and the staged run of main,    *)
(* the per-channel tint map of tint_spectrogram, the LUFS/LRA range bar of *)
(* create_lufs_range_bar, and the text and meter decisions of              *)
(* extract_metadata, create_header and compose_stemmogram.                 *)
(*                                                                         *)
(* Each part of the program has its own specification over its own         *)
(* variables; the variables of the other parts stay at their idle values.  *)
(*   Spec       the run of main around separate_stems and the /cache tree  *)
(*   SpecTint   tint_spectrogram's colour map, pixel by pixel              *)
(*   SpecBar    create_lufs_range_bar                                      *)
(*   SpecHeader extract_metadata, create_header, compose_stemmogram labels *)
(*   SpecMarkers, FairSpecMarkers  compose_stemmogram's time-marker loop   *)
(*   SpecLoudness  Step 2b of main, the stem loudness record               *)
(***************************************************************************)
EXTENDS Integers, Sequences, FiniteSets, TLC

VARIABLES
    \* ---- tint_spectrogram ------------------------------------------------
    tint_pc,      \* "input" | "inverted" | "tinted"
    gray,         \* one pixel of the grayscale raster after convert("L")
    channel,      \* one channel color[i] of the stem colour
    inverted,     \* the pixel after ImageOps.invert
    out,          \* the pixel of the channel image after img.point
    \* ---- create_lufs_range_bar -------------------------------------------
    bar_pc,       \* "input" | "drawn"
    lufs_value,   \* argument, in 1/Res loudness units
    lra_value,    \* argument, Some of 1/Res loudness units, or None
    width,        \* argument
    bar,          \* the function's locals and draw calls once it has returned
    \* ---- the file system under /cache and /output -------------------------
    cache_dirs,   \* the keys k for which /cache/<k> is a directory
    cache,        \* cache[k]: the stems s for which /cache/<k>/<s>.wav is a file
    cache_meta,   \* the keys k for which /cache/<k>/stem_metadata.json is a file
    output_saved, \* whether this run has written its image under /output
    \* ---- one run of main -------------------------------------------------
    pc,           \* the stage main is at, "done" or "aborted"
    cache_id,     \* args.cache: None or Some(string)
    separator_ran,\* whether this run has invoked demucs
    sep_out,      \* Some(the <stem>.wav files demucs left in its output), or None
    commit,       \* the cache write of separate_stems: "none", "ok", "failed"
    stem_paths,   \* Some(what separate_stems returned: stem -> "cache" | "tmp")
    exit_status,  \* None while running, then Some(0) or Some(1)
    runs,         \* runs of main started so far
    \* ---- history ---------------------------------------------------------
    before,       \* cache, cache_dirs and cache_meta when this run started,
                  \* and the keys whose entry an earlier run created
    \* ---- extract_metadata, create_header, compose_stemmogram --------------
    hdr_pc,       \* "probe" | "extracted" | "header" | "measured" | "composed"
    probe,        \* what ffprobe and ffmpeg report for the input file
    metadata,     \* the dict extract_metadata returns
    header,       \* what create_header draws
    stem_metadata,\* stem -> {"lufs", "lra"} as main passes it on
    labels,       \* what compose_stemmogram draws on each strip
    \* ---- the time markers of compose_stemmogram ---------------------------
    mk_pc,        \* "probe" | "compose" | "loop" | "returned"
    mk_probe,     \* format.duration as ffprobe reports it: Some(tenths) or None
    mk_duration,  \* duration_s, in tenths of a second
    mk_t,         \* t, in seconds
    markers,      \* the marker lines and labels drawn on the overlay, in order
    overlay,      \* whether the overlay was created and composited
    \* ---- Step 2b of main: the stem loudness record ------------------------
    sl_pc,        \* "load" | "measure" | "save" | "done"
    sl_cache_id,  \* args.cache
    meta_file,    \* Some(content of /cache/<id>/stem_metadata.json), or None
    loaded,       \* Some(the record json.load returned), or None
    stem_i,       \* index in STEMS of the stem the loop is at
    measure_calls \* the stems measure_stem_loudness was called for, in order

tintVars == <<tint_pc, gray, channel, inverted, out>>
barVars == <<bar_pc, lufs_value, lra_value, width, bar>>
fsVars == <<cache_dirs, cache, cache_meta, output_saved>>
runVars == <<pc, cache_id, separator_ran, sep_out, commit, stem_paths,
             exit_status, runs, before>>

hdrVars == <<hdr_pc, probe, metadata, header, stem_metadata, labels>>
mkVars == <<mk_pc, mk_probe, mk_duration, mk_t, markers, overlay>>
slVars == <<sl_pc, sl_cache_id, meta_file, loaded, stem_i, measure_calls>>

vars == <<tintVars, barVars, fsVars, runVars, hdrVars, mkVars, slVars>>

\* what each part's actions leave alone
tintOthers == <<barVars, fsVars, runVars, hdrVars, mkVars, slVars>>
barOthers == <<tintVars, fsVars, runVars, hdrVars, mkVars, slVars>>
runOthers == <<tintVars, barVars, hdrVars, mkVars, slVars>>
hdrOthers == <<tintVars, barVars, fsVars, runVars, mkVars, slVars>>
mkOthers == <<tintVars, barVars, fsVars, runVars, hdrVars, slVars>>
slOthers == <<tintVars, barVars, fsVars, runVars, mkVars>>

\* Python's None, and a value that may be None: <<>> or <<v>>
None == <<>>
Some(v) == <<v>>
The(o) == o[1]

Max(a, b) == IF a >= b THEN a ELSE b
Min(a, b) == IF a <= b THEN a ELSE b

(***************************************************************************)
(* int(x) for a rational x = num/den, den > 0: truncation toward zero.     *)
(***************************************************************************)
TruncDiv(num, den) ==
    IF num >= 0 THEN num \div den ELSE -((-num) \div den)

(***************************************************************************)
(*                          tint_spectrogram                               *)
(***************************************************************************)
\* the largest value of an 8-bit "L" pixel and of a colour channel
PixelMax == 255

Pixels == 0..PixelMax

\* ImageOps.invert on an "L" image
Invert(p) == PixelMax - p

\* the same map with the intensity scaled by 1/256 instead of 1/255
TintChannelDiv256(c, p) == c + TruncDiv(p * (PixelMax - c), PixelMax + 1)

\* lambda p: int(color[i] + p * (255 - color[i]) / 255)
\* p * (255 - c) is an exact integer below 2^53; a quotient that is not an
\* integer is at least 1/255 away from one, far more than a double's rounding
\* error, so int() of the double is the floor of the exact rational.
TintChannel(c, p) == c + TruncDiv(p * (PixelMax - c), PixelMax)

\* img = ImageOps.invert(img)
InvertPixel ==
    /\ tint_pc = "input"
    /\ inverted' = Invert(gray)
    /\ tint_pc' = "inverted"
    /\ UNCHANGED <<gray, channel, out>>
    /\ UNCHANGED tintOthers

\* img.point(lambda p: ...) for one channel
PointChannel ==
    /\ tint_pc = "inverted"
    /\ out' = TintChannel(channel, inverted)
    /\ tint_pc' = "tinted"
    /\ UNCHANGED <<gray, channel, inverted>>
    /\ UNCHANGED tintOthers

TintNext == InvertPixel \/ PointChannel

(***************************************************************************)
(*                        create_lufs_range_bar                            *)
(*                                                                         *)
(* Loudness values are held as integers in 1/Res of a loudness unit.       *)
(* ebur128 prints one decimal, and the bar's ends are the loudness plus    *)
(* and minus half the range, so twentieths hold every value exactly.       *)
(*                                                                         *)
(* The code computes in doubles.  A double is modelled as the exact        *)
(* rational n/Res together with what rounding can change:                  *)
(*   e    the sign of (double - exact), which decides a comparison with    *)
(*        another value of the same n;                                     *)
(*   rnd  1 when (lufs - lufs_min) / scale_range * width, whose exact      *)
(*        value is an integer q, came out one ulp nearer zero, so that     *)
(*        int() gives the integer next to q.                               *)
(* A quotient that is not an integer is at least 1/(scale_range * Res)     *)
(* away from one, so rounding never changes its int().  The literals of    *)
(* the source (-30, -24, -18, -14, -9, 0) are exact doubles, and for the   *)
(* widths the program uses their pixel is the exact one.  The model allows *)
(* every outcome rounding could give, which includes the one it gives.     *)
(***************************************************************************)
Res == 2 * 10

lufs_min == -30
lufs_max == 0
scale_range == lufs_max - lufs_min

\* height: int = 28, and meter_height = 28 in create_header
height == 28
track_height == 8
track_y == (height - track_height) \div 2
bar_height == height - 4
bar_y == 2
marker_width == 3
bracket_height == 6

\* width: int = 240 is the default; create_header passes meter_width = 200
DefaultWidth == 240
meter_width == 200
Widths == {meter_width, DefaultWidth}

default_lra == 6
lra_floor == 2
lra_ceiling == 20

Transparent == <<255, 255, 255, 0>>
TrackFill == <<220, 220, 220, 255>>
TickFill == <<180, 180, 180, 255>>
MarkerFill == <<255, 255, 255, 200>>
BracketFill == <<0, 0, 0, 180>>
Blue == <<70, 130, 180>>
Green == <<50, 180, 50>>
Orange == <<255, 165, 0>>
Red == <<220, 50, 50>>

\* color + (255,)
Opaque(color) == color \o <<255>>

tick_values == <<-24, -18, -14, -9>>

zones == <<
    [zone_min |-> -30, zone_max |-> -18, color |-> Blue],
    [zone_min |-> -18, zone_max |-> -14, color |-> Green],
    [zone_min |-> -14, zone_max |-> -9, color |-> Orange],
    [zone_min |-> -9, zone_max |-> 0, color |-> Red] >>

\* a literal of the source, an exact double
Lit(v) == [n |-> v * Res, e |-> 0, rnd |-> 0]

Literals == {lufs_min, lufs_max} \cup {tick_values[i] : i \in 1..Len(tick_values)}

IsLiteralValue(n) == \E v \in Literals : n = v * Res

\* a < b on doubles
FlLt(a, b) == a.n < b.n \/ (a.n = b.n /\ a.e < b.e)

\* max(a, b) and min(a, b) of Python: the first argument unless the second
\* is strictly larger (smaller)
FlMax(a, b) == IF FlLt(a, b) THEN b ELSE a
FlMin(a, b) == IF FlLt(b, a) THEN b ELSE a

\* whether (lufs - lufs_min) / scale_range * width is an integer other than 0
WholePixel(n, w) ==
    /\ ((n - lufs_min * Res) * w) % (scale_range * Res) = 0
    /\ n # lufs_min * Res

\* the outcomes rounding leaves open for a computed double of exact value n.
\* Only a value that is exactly a literal's can compare either way with it.
EChoices(n) == IF IsLiteralValue(n) THEN {-1, 0, 1} ELSE {0}

\* Rounding is monotone: a double not below a literal maps to a pixel not
\* below the literal's, which is the exact one.
RndChoices(n, e, w) ==
    IF WholePixel(n, w) /\ (~IsLiteralValue(n) \/ e < 0) THEN {0, 1} ELSE {0}

\* def lufs_to_x(lufs): return int((lufs - lufs_min) / scale_range * width)
lufs_to_x(f, w) ==
    LET q == TruncDiv((f.n - lufs_min * Res) * w, scale_range * Res)
    IN  IF f.rnd = 1 /\ WholePixel(f.n, w)
        THEN (IF q > 0 THEN q - 1 ELSE q + 1)
        ELSE q

\* the loudness used as it is given
ClampLufsNone(lufs) == lufs

\* lufs_clamped = max(lufs_min, min(lufs_max, lufs_value))
ClampLufs(lufs) == Max(lufs_min * Res, Min(lufs_max * Res, lufs))

\* the range used as it is given, with only the default for a missing one
ClampLraNone(lra) == IF lra = None THEN default_lra * Res ELSE The(lra)

\* if lra_value is None: lra_value = 6
\* lra_clamped = max(2, min(20, lra_value))
ClampLra(lra) ==
    LET given == IF lra = None THEN default_lra * Res ELSE The(lra)
    IN  Max(lra_floor * Res, Min(lra_ceiling * Res, given))

\* the exact values of bar_lufs_left and bar_lufs_right
BarLufsLeft(lufs, lra) == ClampLufs(lufs) - ClampLra(lra) \div 2
BarLufsRight(lufs, lra) == ClampLufs(lufs) + ClampLra(lra) \div 2

\* the zone loop with the lower boundary's column left to the zone below
SegmentExclusiveLow(zone, left, right, bar_left, bar_right, w) ==
    LET overlap_min == FlMax(left, Lit(zone.zone_min))
        overlap_max == FlMin(right, Lit(zone.zone_max))
        x_left == Max(bar_left, lufs_to_x(overlap_min, w) + 1)
        x_right == Min(bar_right, lufs_to_x(overlap_max, w))
    IN  [overlap |-> FlLt(overlap_min, overlap_max),
         drawn |-> FlLt(overlap_min, overlap_max) /\ x_left < x_right,
         x_left |-> x_left, x_right |-> x_right, color |-> zone.color]

\* the zone loop with every overlapping zone painted over the whole bar
SegmentWholeBar(zone, left, right, bar_left, bar_right, w) ==
    LET overlap_min == FlMax(left, Lit(zone.zone_min))
        overlap_max == FlMin(right, Lit(zone.zone_max))
    IN  [overlap |-> FlLt(overlap_min, overlap_max),
         drawn |-> FlLt(overlap_min, overlap_max) /\ bar_left < bar_right,
         x_left |-> bar_left, x_right |-> bar_right, color |-> zone.color]

\* one pass of "for zone_min, zone_max, color in zones"
Segment(zone, left, right, bar_left, bar_right, w) ==
    LET overlap_min == FlMax(left, Lit(zone.zone_min))
        overlap_max == FlMin(right, Lit(zone.zone_max))
        x_left == Max(bar_left, lufs_to_x(overlap_min, w))
        x_right == Min(bar_right, lufs_to_x(overlap_max, w))
    IN  [overlap |-> FlLt(overlap_min, overlap_max),
         drawn |-> FlLt(overlap_min, overlap_max) /\ x_left < x_right,
         x_left |-> x_left, x_right |-> x_right, color |-> zone.color]

\* draw.rectangle([x0, y0, x1, y1], fill): both corners are inside
Rectangle(x0, y0, x1, y1, fill) ==
    [x0 |-> x0, y0 |-> y0, x1 |-> x1, y1 |-> y1, fill |-> fill]

\* draw.line([(x, y0), (x, y1)], fill, width=1)
VLine(x, y0, y1, fill) ==
    [x0 |-> x, y0 |-> y0, x1 |-> x, y1 |-> y1, fill |-> fill]

\* the body of create_lufs_range_bar; fp holds the rounding outcomes
RangeBar(lufs, lra, w, fp) ==
    LET lufs_clamped == [n |-> ClampLufs(lufs), e |-> 0, rnd |-> fp.rnd_center]
        lra_clamped == ClampLra(lra)
        bar_lufs_left == [n |-> BarLufsLeft(lufs, lra),
                          e |-> fp.e_left, rnd |-> fp.rnd_left]
        bar_lufs_right == [n |-> BarLufsRight(lufs, lra),
                           e |-> fp.e_right, rnd |-> fp.rnd_right]
        bar_left == Max(0, lufs_to_x(bar_lufs_left, w))
        bar_right == Min(w - 1, lufs_to_x(bar_lufs_right, w))
        segments == [i \in 1..Len(zones) |->
                        Segment(zones[i], bar_lufs_left, bar_lufs_right,
                                bar_left, bar_right, w)]
        center_x == lufs_to_x(lufs_clamped, w)
        marker_left == Max(bar_left, center_x - marker_width \div 2)
        marker_right == Min(bar_right, center_x + marker_width \div 2)
        track == Rectangle(0, track_y, w - 1, track_y + track_height - 1, TrackFill)
        ticks == [i \in 1..Len(tick_values) |->
                    VLine(lufs_to_x(Lit(tick_values[i]), w),
                          track_y - 2, track_y + track_height + 1, TickFill)]
        rects == [i \in 1..Len(zones) |->
                    Rectangle(segments[i].x_left, bar_y, segments[i].x_right,
                              bar_y + bar_height - 1, Opaque(segments[i].color))]
        drawn == SelectSeq(rects,
                    LAMBDA r : \E i \in 1..Len(zones) :
                        segments[i].drawn /\ rects[i] = r)
        marker == Rectangle(marker_left, bar_y, marker_right,
                            bar_y + bar_height - 1, MarkerFill)
    IN  [lufs_clamped |-> lufs_clamped.n,
         lra_clamped |-> lra_clamped,
         bar_lufs_left |-> bar_lufs_left.n,
         bar_lufs_right |-> bar_lufs_right.n,
         bar_left |-> bar_left,
         bar_right |-> bar_right,
         segments |-> segments,
         center_x |-> center_x,
         marker_left |-> marker_left,
         marker_right |-> marker_right,
         \* the rectangles and one-pixel lines, in the order drawn
         draws |-> <<track>> \o ticks \o drawn \o <<marker>>,
         \* the x of the four two-pixel bracket lines, drawn last; they reach
         \* bracket_height rows in from the bar's top and bottom
         brackets |-> <<bar_left, bar_right>>]

\* the pixel (x, y) of the image after draws
PixelAt(draws, x, y) ==
    LET hits == {i \in 1..Len(draws) :
                    /\ draws[i].x0 <= x /\ x <= draws[i].x1
                    /\ draws[i].y0 <= y /\ y <= draws[i].y1}
    IN  IF hits = {} THEN Transparent
        ELSE draws[CHOOSE i \in hits : \A j \in hits : j <= i].fill

\* a row the bar, the track and the marker cover and the brackets do not
MidRow == height \div 2

\* loudness arguments: every tenth from MaxBelow tenths under lufs_min to
\* MaxAbove tenths over lufs_max
MaxBelow == 20
MaxAbove == 10
LufsInputs == {2 * t : t \in (lufs_min * 10 - MaxBelow)..(lufs_max * 10 + MaxAbove)}

\* range arguments: missing, or every fifth from 0 to MaxLra fifths
MaxLra == 110
LraInputs == {None} \cup {Some(4 * t) : t \in 0..MaxLra}

create_lufs_range_bar ==
    /\ bar_pc = "input"
    /\ \E e_left \in EChoices(BarLufsLeft(lufs_value, lra_value)),
          e_right \in EChoices(BarLufsRight(lufs_value, lra_value)) :
       \E rnd_left \in RndChoices(BarLufsLeft(lufs_value, lra_value), e_left, width),
          rnd_right \in RndChoices(BarLufsRight(lufs_value, lra_value), e_right, width),
          rnd_center \in RndChoices(ClampLufs(lufs_value), 0, width) :
            bar' = RangeBar(lufs_value, lra_value, width,
                            [e_left |-> e_left, e_right |-> e_right,
                             rnd_left |-> rnd_left, rnd_right |-> rnd_right,
                             rnd_center |-> rnd_center])
    /\ bar_pc' = "drawn"
    /\ UNCHANGED <<lufs_value, lra_value, width>>
    /\ UNCHANGED barOthers

BarNext == create_lufs_range_bar

(***************************************************************************)
(*                     main, separate_stems and /cache                     *)
(***************************************************************************)
STEMS == <<"vocals", "other", "bass", "drums">>

Stems == {STEMS[i] : i \in 1..Len(STEMS)}

\* the cache ids a run may be started with, besides none and the empty one
Keys == {"trackA", "trackB"}

CacheIds == {None, Some("")} \cup {Some(k) : k \in Keys}

\* "if cache_id:" -- None and "" are both false
Truthy(id) == id # None /\ The(id) # ""

\* the hit test taken with any() in place of all()
CacheHitAny(id, files) == Truthy(id) /\ files[The(id)] # {}

\* if cache_id: ... if all(os.path.isfile(p) for p in cached_paths.values())
CacheHit(id, files) == Truthy(id) /\ files[The(id)] = Stems

\* the check of demucs's output left out
OutputCompleteUnchecked(produced) == TRUE

\* the loop "for stem in STEMS: if not os.path.isfile(wav_path): sys.exit(1)"
\* passes when no stem is missing
OutputComplete(produced) == \A i \in 1..Len(STEMS) : STEMS[i] \in produced

AllAt(place) == Some([s \in Stems |-> place])

\* the stems copied by the first n passes of the copy loop
Copied(n) == {STEMS[i] : i \in 1..n}

\* the copy loop with its last pass left out
CommitStemsButLast(files, key) ==
    [files EXCEPT ![key] = @ \cup Copied(Len(STEMS) - 1)]

\* for stem in STEMS: shutil.copy2(stem_paths[stem], cached_path), every pass
\* succeeding
CommitStems(files, key) == [files EXCEPT ![key] = @ \cup Copied(Len(STEMS))]

\* the bound on the number of runs of main in one behaviour
MaxRuns == 3

Abort ==
    /\ pc' = "aborted"
    /\ exit_status' = Some(1)

\* args = parse_args(); the input file is there; os.makedirs(output_dir)
ParseArgs ==
    /\ pc = "start"
    /\ cache_id' \in CacheIds
    /\ pc' = "metadata"
    /\ UNCHANGED <<separator_ran, sep_out, commit, stem_paths, exit_status,
                   runs, before>>
    /\ UNCHANGED fsVars
    /\ UNCHANGED runOthers

\* os.path.isfile(input_path) is false: sys.exit(1)
InputMissing ==
    /\ pc = "start"
    /\ Abort
    /\ UNCHANGED <<cache_id, separator_ran, sep_out, commit, stem_paths,
                   runs, before>>
    /\ UNCHANGED fsVars
    /\ UNCHANGED runOthers

\* metadata = extract_metadata(input_path); ffprobe runs with check=True
ExtractMetadata ==
    /\ pc = "metadata"
    /\ \/ pc' = "separate" /\ UNCHANGED exit_status
       \/ Abort
    /\ UNCHANGED <<cache_id, separator_ran, sep_out, commit, stem_paths,
                   runs, before>>
    /\ UNCHANGED fsVars
    /\ UNCHANGED runOthers

\* separate_stems: the cached paths are returned
SeparateHit ==
    /\ pc = "separate"
    /\ CacheHit(cache_id, cache)
    /\ stem_paths' = AllAt("cache")
    /\ pc' = "measure"
    /\ UNCHANGED <<cache_id, separator_ran, sep_out, commit, exit_status,
                   runs, before>>
    /\ UNCHANGED fsVars
    /\ UNCHANGED runOthers

\* separate_stems: subprocess.run([... demucs ...], check=True) raises
SeparatorFails ==
    /\ pc = "separate"
    /\ ~CacheHit(cache_id, cache)
    /\ separator_ran' = TRUE
    /\ Abort
    /\ UNCHANGED <<cache_id, sep_out, commit, stem_paths,
                   runs, before>>
    /\ UNCHANGED fsVars
    /\ UNCHANGED runOthers

\* separate_stems: demucs has run and an expected file is missing: sys.exit(1)
SeparateStemMissing ==
    /\ pc = "separate"
    /\ ~CacheHit(cache_id, cache)
    /\ separator_ran' = TRUE
    /\ \E produced \in SUBSET Stems :
          /\ ~OutputComplete(produced)
          /\ sep_out' = Some(produced)
    /\ Abort
    /\ UNCHANGED <<cache_id, commit, stem_paths, runs, before>>
    /\ UNCHANGED fsVars
    /\ UNCHANGED runOthers

\* separate_stems: demucs has run, no cache id: the workspace paths are returned
SeparateNoCache ==
    /\ pc = "separate"
    /\ ~CacheHit(cache_id, cache)
    /\ ~Truthy(cache_id)
    /\ separator_ran' = TRUE
    /\ \E produced \in SUBSET Stems :
          /\ OutputComplete(produced)
          /\ sep_out' = Some(produced)
    /\ stem_paths' = AllAt("tmp")
    /\ pc' = "measure"
    /\ UNCHANGED <<cache_id, commit, exit_status, runs, before>>
    /\ UNCHANGED fsVars
    /\ UNCHANGED runOthers

\* separate_stems: demucs has run, the four files are copied to /cache/<id>
SeparateCommit ==
    /\ pc = "separate"
    /\ ~CacheHit(cache_id, cache)
    /\ Truthy(cache_id)
    /\ separator_ran' = TRUE
    /\ \E produced \in SUBSET Stems :
          /\ OutputComplete(produced)
          /\ sep_out' = Some(produced)
    /\ cache_dirs' = cache_dirs \cup {The(cache_id)}
    /\ cache' = CommitStems(cache, The(cache_id))
    /\ commit' = "ok"
    /\ stem_paths' = AllAt("cache")
    /\ pc' = "measure"
    /\ UNCHANGED <<cache_id, exit_status, runs, before>>
    /\ UNCHANGED <<cache_meta, output_saved>>
    /\ UNCHANGED runOthers

\* separate_stems: os.makedirs raises; nothing catches it
SeparateMkdirFails ==
    /\ pc = "separate"
    /\ ~CacheHit(cache_id, cache)
    /\ Truthy(cache_id)
    /\ separator_ran' = TRUE
    /\ \E produced \in SUBSET Stems :
          /\ OutputComplete(produced)
          /\ sep_out' = Some(produced)
    /\ commit' = "failed"
    /\ Abort
    /\ UNCHANGED <<cache_id, stem_paths, runs, before>>
    /\ UNCHANGED fsVars
    /\ UNCHANGED runOthers

\* separate_stems: shutil.copy2 raises in pass n of the copy loop; nothing
\* catches it.  The file it was writing may or may not be left behind.
SeparateCopyFails ==
    /\ pc = "separate"
    /\ ~CacheHit(cache_id, cache)
    /\ Truthy(cache_id)
    /\ separator_ran' = TRUE
    /\ \E produced \in SUBSET Stems :
          /\ OutputComplete(produced)
          /\ sep_out' = Some(produced)
    /\ cache_dirs' = cache_dirs \cup {The(cache_id)}
    /\ \E n \in 1..Len(STEMS), left_behind \in BOOLEAN :
          cache' = [cache EXCEPT ![The(cache_id)] =
                        @ \cup Copied(n - 1)
                          \cup (IF left_behind THEN {STEMS[n]} ELSE {})]
    /\ commit' = "failed"
    /\ Abort
    /\ UNCHANGED <<cache_id, stem_paths, runs, before>>
    /\ UNCHANGED <<cache_meta, output_saved>>
    /\ UNCHANGED runOthers

\* Step 2b: the stems' loudness is measured; with a cache id the record is
\* written to /cache/<id>/stem_metadata.json inside try/except
MeasureLoudness ==
    /\ pc = "measure"
    /\ IF Truthy(cache_id)
       THEN \/ /\ cache_dirs' = cache_dirs \cup {The(cache_id)}
               /\ cache_meta' = cache_meta \cup {The(cache_id)}
            \/ UNCHANGED <<cache_dirs, cache_meta>>
       ELSE UNCHANGED <<cache_dirs, cache_meta>>
    /\ pc' = "render"
    /\ UNCHANGED <<cache_id, separator_ran, sep_out, commit, stem_paths,
                   exit_status, runs, before>>
    /\ UNCHANGED <<cache, output_saved>>
    /\ UNCHANGED runOthers

\* Steps 3 to 5: the rasters are generated (ffmpeg with check=True), tinted
\* and composed
Render ==
    /\ pc = "render"
    /\ \/ pc' = "save" /\ UNCHANGED exit_status
       \/ Abort
    /\ UNCHANGED <<cache_id, separator_ran, sep_out, commit, stem_paths,
                   runs, before>>
    /\ UNCHANGED fsVars
    /\ UNCHANGED runOthers

\* Step 6: final.save(output_path), and main returns
SaveOutput ==
    /\ pc = "save"
    /\ output_saved' = TRUE
    /\ pc' = "done"
    /\ exit_status' = Some(0)
    /\ UNCHANGED <<cache_id, separator_ran, sep_out, commit, stem_paths,
                   runs, before>>
    /\ UNCHANGED <<cache_dirs, cache, cache_meta>>
    /\ UNCHANGED runOthers

\* the program is started again
NextRun ==
    /\ pc \in {"done", "aborted"}
    /\ runs < MaxRuns
    /\ runs' = runs + 1
    /\ pc' = "start"
    /\ cache_id' = None
    /\ separator_ran' = FALSE
    /\ sep_out' = None
    /\ commit' = "none"
    /\ stem_paths' = None
    /\ exit_status' = None
    /\ output_saved' = FALSE
    /\ before' = [cache |-> cache, dirs |-> cache_dirs, meta |-> cache_meta,
                  created |-> before.created
                                \cup (IF commit = "ok" THEN {The(cache_id)}
                                      ELSE {})]
    /\ UNCHANGED <<cache_dirs, cache, cache_meta>>
    /\ UNCHANGED runOthers

RunNext ==
    \/ ParseArgs
    \/ InputMissing
    \/ ExtractMetadata
    \/ SeparateHit
    \/ SeparatorFails
    \/ SeparateStemMissing
    \/ SeparateNoCache
    \/ SeparateCommit
    \/ SeparateMkdirFails
    \/ SeparateCopyFails
    \/ MeasureLoudness
    \/ Render
    \/ SaveOutput
    \/ NextRun

(***************************************************************************)
(*          extract_metadata, create_header, compose_stemmogram            *)
(*                                                                         *)
(* Times are held in tenths of a second, loudness and levels in tenths of  *)
(* a unit.  A formatted text is the tuple of its unit and its numbers;     *)
(* "N/A" is <<"N/A">>.                                                     *)
(***************************************************************************)
NA == <<"N/A">>

\* what the tools may report; every field may be missing
DurationReports == {None, Some(599), Some(1854)}
BitRateReports == {None, Some(128000), Some(320999)}
SampleRateReports == {None, Some(800), Some(44100)}
LufsReports == {None, Some(-143), Some(0)}
LraReports == {None, Some(63)}
VolumeReports == {None, Some(-203)}

Probes ==
    [duration : DurationReports, bit_rate : BitRateReports,
     sample_rate : SampleRateReports, lufs : LufsReports, lra : LraReports,
     mean_volume : VolumeReports, max_volume : VolumeReports]

\* dict.get(key, default)
GetOr(o, default) == IF o = None THEN default ELSE The(o)

\* f"{minutes}:{seconds:02d}"
DurationStr(duration_s) ==
    <<"m:ss", duration_s \div 600, (duration_s % 600) \div 10>>

\* f"{int(sr) // 1000}kHz" if int(sr) >= 1000 else f"{sr}Hz"
SampleRateStr(sr) ==
    IF sr >= 1000 THEN <<"kHz", sr \div 1000>> ELSE <<"Hz", sr>>

\* f"{float(match.group(1)):.1f} dB"
VolumeStr(v) == <<"dB", v>>

\* the body of extract_metadata
ExtractedMetadata(p) ==
    LET duration_s == GetOr(p.duration, 0)
        bitrate_bps == GetOr(p.bit_rate, 0)
    IN  [duration |-> DurationStr(duration_s),
         duration_s |-> duration_s,
         bitrate_kbps |-> bitrate_bps \div 1000,
         lufs |-> p.lufs,
         lra |-> p.lra,
         sample_rate |-> IF p.sample_rate = None THEN NA
                         ELSE SampleRateStr(The(p.sample_rate)),
         mean_volume |-> IF p.mean_volume = None THEN NA
                         ELSE VolumeStr(The(p.mean_volume)),
         max_volume |-> IF p.max_volume = None THEN NA
                        ELSE VolumeStr(The(p.max_volume))]

\* f"{lufs:.1f} LUFS{lra_str}" with lra_str = f", {lra:.0f} LU" or ""
LufsText(lufs, lra) == [lufs |-> lufs, lra |-> lra]

\* create_header with the meter drawn for 0.0 LUFS when there is no value
CreatedHeaderMeterAlways(m) ==
    [stats |-> [duration |-> m.duration,
                bitrate |-> <<"kbps", m.bitrate_kbps>>,
                sample_rate |-> m.sample_rate,
                mean_volume |-> m.mean_volume,
                max_volume |-> m.max_volume],
     meter_calls |-> <<[lufs |-> GetOr(m.lufs, 0), lra |-> m.lra,
                        width |-> meter_width, height |-> height]>>,
     meter_pasted |-> TRUE,
     lufs_text |-> Some(LufsText(GetOr(m.lufs, 0), m.lra))]

\* the body of create_header: the stats line, and the meter and its text
\* inside "if lufs is not None"
CreatedHeader(m) ==
    [stats |-> [duration |-> m.duration,
                bitrate |-> <<"kbps", m.bitrate_kbps>>,
                sample_rate |-> m.sample_rate,
                mean_volume |-> m.mean_volume,
                max_volume |-> m.max_volume],
     \* the calls of create_lufs_range_bar(lufs, lra, meter_width, meter_height)
     meter_calls |-> IF m.lufs # None
                     THEN <<[lufs |-> The(m.lufs), lra |-> m.lra,
                             width |-> meter_width, height |-> height]>>
                     ELSE <<>>,
     meter_pasted |-> m.lufs # None,
     lufs_text |-> IF m.lufs # None
                   THEN Some(LufsText(The(m.lufs), m.lra))
                   ELSE None]

\* the label loop with the stats text built whenever the stem has an entry
StemLabelAnyEntry(stem_name, sm) ==
    [label_text |-> stem_name,
     stats_text |-> Some(LufsText(GetOr(sm[stem_name].lufs, 0), sm[stem_name].lra))]

\* one pass of the label loop of compose_stemmogram: the stem's name, and
\* the stats text inside 'if meta.get("lufs") is not None'
StemLabel(stem_name, sm) ==
    [label_text |-> stem_name,
     stats_text |-> IF sm[stem_name].lufs # None
                    THEN Some(LufsText(The(sm[stem_name].lufs), sm[stem_name].lra))
                    ELSE None]

\* what measure_stem_loudness, or the cached record, gives for one stem
StemMeasurements == [lufs : {None, Some(-187)}, lra : {None, Some(41)}]

\* metadata = extract_metadata(input_path)
extract_metadata ==
    /\ hdr_pc = "probe"
    /\ metadata' = ExtractedMetadata(probe)
    /\ hdr_pc' = "extracted"
    /\ UNCHANGED <<probe, header, stem_metadata, labels>>
    /\ UNCHANGED hdrOthers

\* header = create_header(input_path, metadata)
create_header ==
    /\ hdr_pc = "extracted"
    /\ header' = CreatedHeader(metadata)
    /\ hdr_pc' = "header"
    /\ UNCHANGED <<probe, metadata, stem_metadata, labels>>
    /\ UNCHANGED hdrOthers

\* Step 2b of main has left an entry for every stem
measure_stems ==
    /\ hdr_pc = "header"
    /\ stem_metadata' \in [Stems -> StemMeasurements]
    /\ hdr_pc' = "measured"
    /\ UNCHANGED <<probe, metadata, header, labels>>
    /\ UNCHANGED hdrOthers

\* final = compose_stemmogram(header, tinted, duration_s, stem_metadata)
compose_stemmogram ==
    /\ hdr_pc = "measured"
    /\ labels' = [i \in 1..Len(STEMS) |-> StemLabel(STEMS[i], stem_metadata)]
    /\ hdr_pc' = "composed"
    /\ UNCHANGED <<probe, metadata, header, stem_metadata>>
    /\ UNCHANGED hdrOthers

HeaderNext ==
    \/ extract_metadata
    \/ create_header
    \/ measure_stems
    \/ compose_stemmogram

(***************************************************************************)
(*                 the time markers of compose_stemmogram                  *)
(*                                                                         *)
(* duration_s is held in tenths of a second, t in seconds as in the code.  *)
(***************************************************************************)
WIDTH == 1920
HEADER_HEIGHT == 80
TOTAL_HEIGHT == 1080
marker_step == 30

MaxDuration == 2000

\* format.duration as ffprobe may report it, or not at all
DurationInputs == {None} \cup {Some(d) : d \in 0..MaxDuration}

\* t < duration_s with the <= of a loop that runs once too often
MarkerDueInclusive(secs, duration_s) == secs * 10 <= duration_s

\* t < duration_s
MarkerDue(secs, duration_s) == secs * 10 < duration_s

\* int(t / duration_s * WIDTH).  The two float operations round: when the
\* exact product is a whole number of pixels the double may fall just below
\* it and int() then gives the pixel before; otherwise int() gives the floor.
MarkerX(secs, duration_s) ==
    LET num == secs * 10 * WIDTH
        q == TruncDiv(num, duration_s)
    IN  IF num % duration_s = 0 THEN {q - 1, q} ELSE {q}

\* f"{minutes}:{seconds:02d}" with minutes = int(t // 60), seconds = int(t % 60)
MarkerLabel(secs) == <<"m:ss", secs \div 60, secs % 60>>

\* metadata["duration_s"] = float(fmt.get("duration", 0)), handed to
\* compose_stemmogram
MarkersExtract ==
    /\ mk_pc = "probe"
    /\ mk_duration' = GetOr(mk_probe, 0)
    /\ mk_pc' = "compose"
    /\ UNCHANGED <<mk_probe, mk_t, markers, overlay>>
    /\ UNCHANGED mkOthers

\* if duration_s > 0: overlay = Image.new(...); t = 30
MarkersBegin ==
    /\ mk_pc = "compose"
    /\ mk_duration > 0
    /\ overlay' = TRUE
    /\ mk_t' = marker_step
    /\ mk_pc' = "loop"
    /\ UNCHANGED <<mk_probe, mk_duration, markers>>
    /\ UNCHANGED mkOthers

\* duration_s > 0 is false: return final as it is
MarkersSkip ==
    /\ mk_pc = "compose"
    /\ ~(mk_duration > 0)
    /\ mk_pc' = "returned"
    /\ UNCHANGED <<mk_probe, mk_duration, mk_t, markers, overlay>>
    /\ UNCHANGED mkOthers

\* one turn of while t < duration_s: the line, the label, t += 30
MarkerStep ==
    /\ mk_pc = "loop"
    /\ MarkerDue(mk_t, mk_duration)
    /\ \E x \in MarkerX(mk_t, mk_duration) :
          markers' = Append(markers,
                            [t |-> mk_t,
                             line |-> VLine(x, HEADER_HEIGHT, TOTAL_HEIGHT,
                                            <<0, 0, 0, 64>>),
                             label |-> MarkerLabel(mk_t),
                             label_x |-> x - 30])
    /\ mk_t' = mk_t + marker_step
    /\ UNCHANGED <<mk_pc, mk_probe, mk_duration, overlay>>
    /\ UNCHANGED mkOthers

\* t < duration_s is false: alpha_composite and return
MarkersEnd ==
    /\ mk_pc = "loop"
    /\ ~MarkerDue(mk_t, mk_duration)
    /\ mk_pc' = "returned"
    /\ UNCHANGED <<mk_probe, mk_duration, mk_t, markers, overlay>>
    /\ UNCHANGED mkOthers

MarkersNext ==
    \/ MarkersExtract
    \/ MarkersBegin
    \/ MarkersSkip
    \/ MarkerStep
    \/ MarkersEnd

(***************************************************************************)
(*            Step 2b of main: the stem loudness record                    *)
(*                                                                         *)
(* A record is a dict from stem names to entries; an entry's "lufs" and    *)
(* "lra" are None when the key is absent or null, which is all that        *)
(* dict.get tells.                                                         *)
(***************************************************************************)
\* the part of the header variables Step 2b leaves alone
slHdrRest == <<hdr_pc, probe, metadata, header, labels>>

\* {}
EmptyDict == [s \in {} |-> None]

\* d[k] = v
Put(d, k, v) == [s \in DOMAIN d \cup {k} |-> IF s = k THEN v ELSE d[s]]

\* the entries a stored record may hold, and what a measurement may return
CachedEntries == [lufs : {None, Some(-187), Some(0)}, lra : {None, Some(41)}]
FreshEntries == [lufs : {None, Some(-201)}, lra : {None, Some(55)}]

\* the records json.load may return: any of the stems may have no entry
Records == UNION {[present -> CachedEntries] : present \in SUBSET Stems}

\* stem_metadata.json: parseable with its record, or not parseable
MetaFiles ==
    {Some([ok |-> TRUE, record |-> r]) : r \in Records}
        \cup {Some([ok |-> FALSE, record |-> EmptyDict])}

\* the loop's test with every stem measured again
NeedsMeasureAlways(stem, sm) == TRUE

\* stem in stem_metadata
HasEntry(stem, sm) == \E s \in DOMAIN sm : s = stem

\* stem not in stem_metadata or stem_metadata[stem].get("lufs") is None
NeedsMeasure(stem, sm) ==
    IF ~HasEntry(stem, sm) THEN TRUE ELSE sm[stem].lufs = None

\* metadata_cache_path is set and is a file, and json.load succeeds
LoadRecord ==
    /\ sl_pc = "load"
    /\ Truthy(sl_cache_id)
    /\ meta_file # None
    /\ The(meta_file).ok
    /\ stem_metadata' = The(meta_file).record
    /\ loaded' = Some(The(meta_file).record)
    /\ sl_pc' = "measure"
    /\ stem_i' = 1
    /\ UNCHANGED <<sl_cache_id, meta_file, measure_calls>>
    /\ UNCHANGED slHdrRest
    /\ UNCHANGED slOthers

\* json.load raises: stem_metadata = {}
LoadFails ==
    /\ sl_pc = "load"
    /\ Truthy(sl_cache_id)
    /\ meta_file # None
    /\ ~The(meta_file).ok
    /\ stem_metadata' = EmptyDict
    /\ sl_pc' = "measure"
    /\ stem_i' = 1
    /\ UNCHANGED <<sl_cache_id, meta_file, loaded, measure_calls>>
    /\ UNCHANGED slHdrRest
    /\ UNCHANGED slOthers

\* no cache id, or no stem_metadata.json: stem_metadata stays {}
NoRecord ==
    /\ sl_pc = "load"
    /\ ~Truthy(sl_cache_id) \/ meta_file = None
    /\ stem_metadata' = EmptyDict
    /\ sl_pc' = "measure"
    /\ stem_i' = 1
    /\ UNCHANGED <<sl_cache_id, meta_file, loaded, measure_calls>>
    /\ UNCHANGED slHdrRest
    /\ UNCHANGED slOthers

\* for stem in STEMS: the test holds, the stem is measured
MeasureStem ==
    /\ sl_pc = "measure"
    /\ stem_i <= Len(STEMS)
    /\ NeedsMeasure(STEMS[stem_i], stem_metadata)
    /\ \E e \in FreshEntries :
          stem_metadata' = Put(stem_metadata, STEMS[stem_i], e)
    /\ measure_calls' = Append(measure_calls, STEMS[stem_i])
    /\ stem_i' = stem_i + 1
    /\ UNCHANGED <<sl_pc, sl_cache_id, meta_file, loaded>>
    /\ UNCHANGED slHdrRest
    /\ UNCHANGED slOthers

\* for stem in STEMS: the test fails, the entry is used as it is
KeepStem ==
    /\ sl_pc = "measure"
    /\ stem_i <= Len(STEMS)
    /\ ~NeedsMeasure(STEMS[stem_i], stem_metadata)
    /\ stem_i' = stem_i + 1
    /\ UNCHANGED <<sl_pc, sl_cache_id, meta_file, loaded, measure_calls>>
    /\ UNCHANGED hdrVars
    /\ UNCHANGED slOthers

\* the record is written back inside try/except when a cache id was given
SaveRecord ==
    /\ sl_pc = "measure"
    /\ stem_i > Len(STEMS)
    /\ IF Truthy(sl_cache_id)
       THEN \/ meta_file' = Some([ok |-> TRUE, record |-> stem_metadata])
            \/ UNCHANGED meta_file
       ELSE UNCHANGED meta_file
    /\ sl_pc' = "done"
    /\ UNCHANGED <<sl_cache_id, loaded, stem_i, measure_calls>>
    /\ UNCHANGED hdrVars
    /\ UNCHANGED slOthers

LoudnessNext ==
    \/ LoadRecord
    \/ LoadFails
    \/ NoRecord
    \/ MeasureStem
    \/ KeepStem
    \/ SaveRecord

(***************************************************************************)
(*                           specifications                                *)
(***************************************************************************)
\* Every directory that holds a stem file exists.  The first run is about to
\* parse its arguments.
Init ==
    /\ cache \in [Keys -> SUBSET Stems]
    /\ cache_dirs \in SUBSET Keys
    /\ \A k \in Keys : cache[k] # {} => k \in cache_dirs
    /\ cache_meta = {}
    /\ pc = "start"
    /\ cache_id = None
    /\ separator_ran = FALSE
    /\ sep_out = None
    /\ commit = "none"
    /\ stem_paths = None
    /\ exit_status = None
    /\ output_saved = FALSE
    /\ runs = 1
    /\ before = [cache |-> cache, dirs |-> cache_dirs, meta |-> {},
                 created |-> {}]
    /\ tint_pc = "idle"
    /\ gray = None
    /\ channel = None
    /\ inverted = None
    /\ out = None
    /\ bar_pc = "idle"
    /\ lufs_value = None
    /\ lra_value = None
    /\ width = None
    /\ bar = None
    /\ hdr_pc = "idle"
    /\ probe = None
    /\ metadata = None
    /\ header = None
    /\ stem_metadata = None
    /\ labels = None
    /\ mk_pc = "idle"
    /\ mk_probe = None
    /\ mk_duration = None
    /\ mk_t = None
    /\ markers = None
    /\ overlay = None
    /\ sl_pc = "idle"
    /\ sl_cache_id = None
    /\ meta_file = None
    /\ loaded = None
    /\ stem_i = None
    /\ measure_calls = None

Spec == Init /\ [][RunNext]_vars

\* one pixel of a raster and one channel of a stem colour
TintInit ==
    /\ tint_pc = "input"
    /\ gray \in Pixels
    /\ channel \in Pixels
    /\ inverted = None
    /\ out = None
    /\ bar_pc = "idle"
    /\ lufs_value = None
    /\ lra_value = None
    /\ width = None
    /\ bar = None
    /\ cache = None
    /\ cache_dirs = None
    /\ cache_meta = None
    /\ output_saved = None
    /\ pc = "idle"
    /\ cache_id = None
    /\ separator_ran = None
    /\ sep_out = None
    /\ commit = None
    /\ stem_paths = None
    /\ exit_status = None
    /\ runs = None
    /\ before = None
    /\ hdr_pc = "idle"
    /\ probe = None
    /\ metadata = None
    /\ header = None
    /\ stem_metadata = None
    /\ labels = None
    /\ mk_pc = "idle"
    /\ mk_probe = None
    /\ mk_duration = None
    /\ mk_t = None
    /\ markers = None
    /\ overlay = None
    /\ sl_pc = "idle"
    /\ sl_cache_id = None
    /\ meta_file = None
    /\ loaded = None
    /\ stem_i = None
    /\ measure_calls = None

SpecTint == TintInit /\ [][TintNext]_vars

\* the arguments of one call
BarInit ==
    /\ bar_pc = "input"
    /\ lufs_value \in LufsInputs
    /\ lra_value \in LraInputs
    /\ width \in Widths
    /\ bar = None
    /\ tint_pc = "idle"
    /\ gray = None
    /\ channel = None
    /\ inverted = None
    /\ out = None
    /\ cache = None
    /\ cache_dirs = None
    /\ cache_meta = None
    /\ output_saved = None
    /\ pc = "idle"
    /\ cache_id = None
    /\ separator_ran = None
    /\ sep_out = None
    /\ commit = None
    /\ stem_paths = None
    /\ exit_status = None
    /\ runs = None
    /\ before = None
    /\ hdr_pc = "idle"
    /\ probe = None
    /\ metadata = None
    /\ header = None
    /\ stem_metadata = None
    /\ labels = None
    /\ mk_pc = "idle"
    /\ mk_probe = None
    /\ mk_duration = None
    /\ mk_t = None
    /\ markers = None
    /\ overlay = None
    /\ sl_pc = "idle"
    /\ sl_cache_id = None
    /\ meta_file = None
    /\ loaded = None
    /\ stem_i = None
    /\ measure_calls = None

SpecBar == BarInit /\ [][BarNext]_vars

\* the reports of the tools for one input file
HeaderInit ==
    /\ hdr_pc = "probe"
    /\ probe \in Probes
    /\ metadata = None
    /\ header = None
    /\ stem_metadata = None
    /\ labels = None
    /\ tint_pc = "idle"
    /\ gray = None
    /\ channel = None
    /\ inverted = None
    /\ out = None
    /\ bar_pc = "idle"
    /\ lufs_value = None
    /\ lra_value = None
    /\ width = None
    /\ bar = None
    /\ cache = None
    /\ cache_dirs = None
    /\ cache_meta = None
    /\ output_saved = None
    /\ pc = "idle"
    /\ cache_id = None
    /\ separator_ran = None
    /\ sep_out = None
    /\ commit = None
    /\ stem_paths = None
    /\ exit_status = None
    /\ runs = None
    /\ before = None
    /\ mk_pc = "idle"
    /\ mk_probe = None
    /\ mk_duration = None
    /\ mk_t = None
    /\ markers = None
    /\ overlay = None
    /\ sl_pc = "idle"
    /\ sl_cache_id = None
    /\ meta_file = None
    /\ loaded = None
    /\ stem_i = None
    /\ measure_calls = None

SpecHeader == HeaderInit /\ [][HeaderNext]_vars

\* the duration ffprobe reports for one input file
MarkersInit ==
    /\ mk_pc = "probe"
    /\ mk_probe \in DurationInputs
    /\ mk_duration = None
    /\ mk_t = None
    /\ markers = <<>>
    /\ overlay = FALSE
    /\ hdr_pc = "idle"
    /\ probe = None
    /\ metadata = None
    /\ header = None
    /\ stem_metadata = None
    /\ labels = None
    /\ tint_pc = "idle"
    /\ gray = None
    /\ channel = None
    /\ inverted = None
    /\ out = None
    /\ bar_pc = "idle"
    /\ lufs_value = None
    /\ lra_value = None
    /\ width = None
    /\ bar = None
    /\ cache = None
    /\ cache_dirs = None
    /\ cache_meta = None
    /\ output_saved = None
    /\ pc = "idle"
    /\ cache_id = None
    /\ separator_ran = None
    /\ sep_out = None
    /\ commit = None
    /\ stem_paths = None
    /\ exit_status = None
    /\ runs = None
    /\ before = None
    /\ sl_pc = "idle"
    /\ sl_cache_id = None
    /\ meta_file = None
    /\ loaded = None
    /\ stem_i = None
    /\ measure_calls = None

SpecMarkers == MarkersInit /\ [][MarkersNext]_vars

\* the interpreter keeps running the loop until it returns
FairSpecMarkers == SpecMarkers /\ WF_vars(MarkersNext)

\* stem_metadata = {} and what /cache/<id>/stem_metadata.json holds, if there
\* is a cache id
LoudnessInit ==
    /\ sl_pc = "load"
    /\ sl_cache_id \in {None, Some(""), Some("trackA")}
    /\ meta_file \in IF Truthy(sl_cache_id) THEN {None} \cup MetaFiles
                     ELSE {None}
    /\ loaded = None
    /\ stem_i = None
    /\ measure_calls = <<>>
    /\ stem_metadata = EmptyDict
    /\ mk_pc = "idle"
    /\ mk_probe = None
    /\ mk_duration = None
    /\ mk_t = None
    /\ markers = None
    /\ overlay = None
    /\ hdr_pc = "idle"
    /\ probe = None
    /\ metadata = None
    /\ header = None
    /\ labels = None
    /\ tint_pc = "idle"
    /\ gray = None
    /\ channel = None
    /\ inverted = None
    /\ out = None
    /\ bar_pc = "idle"
    /\ lufs_value = None
    /\ lra_value = None
    /\ width = None
    /\ bar = None
    /\ cache = None
    /\ cache_dirs = None
    /\ cache_meta = None
    /\ output_saved = None
    /\ pc = "idle"
    /\ cache_id = None
    /\ separator_ran = None
    /\ sep_out = None
    /\ commit = None
    /\ stem_paths = None
    /\ exit_status = None
    /\ runs = None
    /\ before = None

SpecLoudness == LoudnessInit /\ [][LoudnessNext]_vars

(***************************************************************************)
(*                 claims about separate_stems and the run                 *)
(***************************************************************************)
\* separate_stems has returned or has ended the run
SeparateActed == stem_paths # None \/ separator_ran

\* a cache id was given and all four stem files were under /cache/<id> when
\* the run started
AllFourCached ==
    /\ cache_id # None
    /\ The(cache_id) # ""
    /\ \A s \in Stems : s \in before.cache[The(cache_id)]

(***************************************************************************)
(* C1: separate_stems returns the cached paths without running the         *)
(* separator if and only if a cache id is given and all four stem files    *)
(* exist under /cache/<id>; with any file missing, or with no id (none, or *)
(* the empty string), the separator is run.                                *)
(***************************************************************************)
C1_HitIffAllCached ==
    (pc # "idle" /\ SeparateActed) =>
        /\ AllFourCached <=> (stem_paths = AllAt("cache") /\ ~separator_ran)
        /\ ~AllFourCached => separator_ran

\* a hit: the four files of trackA were there and demucs was not run
C1_Witness ==
    /\ pc = "measure"
    /\ cache_id = Some("trackA")
    /\ before.cache["trackA"] = Stems
    /\ stem_paths = AllAt("cache")
    /\ ~separator_ran

(***************************************************************************)
(* C2: on a cache miss with a cache id given, a failure while committing   *)
(* the stems to the cache (creating the directory or copying a file) does  *)
(* not abort the run.                                                      *)
(***************************************************************************)
C2_CommitFailureDoesNotAbort ==
    (pc # "idle" /\ commit = "failed") =>
        /\ pc # "aborted"
        /\ exit_status # Some(1)

(***************************************************************************)
(* C3: if, after the separator has run, one of the four expected stem      *)
(* files is absent from its output, the run aborts with status 1 before    *)
(* anything is written under /cache and before an image is saved.          *)
(***************************************************************************)
C3_MissingStemAborts ==
    (pc # "idle" /\ sep_out # None /\ The(sep_out) # Stems) =>
        /\ pc = "aborted"
        /\ exit_status = Some(1)
        /\ cache = before.cache
        /\ cache_dirs = before.dirs
        /\ cache_meta = before.meta
        /\ commit = "none"
        /\ ~output_saved

\* demucs ran with a cache id given and left three of the four files
C3_Witness ==
    /\ pc = "aborted"
    /\ Truthy(cache_id)
    /\ separator_ran
    /\ sep_out = Some(Stems \ {"bass"})
    /\ cache[The(cache_id)] = {}

(***************************************************************************)
(* C4: for every intensity v in 0..255 (the value the point lambda is      *)
(* applied to) and every tint channel T[c] in 0..255, the mapped value is  *)
(* exactly T[c] at v = 0, exactly 255 at v = 255, never leaves 0..255, and *)
(* is not larger than the mapped value of v + 1 (non-decreasing in v).     *)
(***************************************************************************)
C4_TintMap ==
    tint_pc = "tinted" =>
        /\ out \in Pixels
        /\ (inverted = 0 => out = channel)
        /\ (inverted = PixelMax => out = PixelMax)
        /\ \A v \in Pixels : v < inverted => TintChannel(channel, v) <= out

\* a mid-range pixel of a coloured channel has been mapped strictly between
\* the tint and white
C4_Witness ==
    /\ tint_pc = "tinted"
    /\ inverted \in 1..(PixelMax - 1)
    /\ channel < out
    /\ out < PixelMax

(***************************************************************************)
(*               claims about the header and the stem labels               *)
(***************************************************************************)
HeaderDrawn == hdr_pc \in {"header", "measured", "composed"}

(***************************************************************************)
(* C9: with the track loudness missing, create_header never calls the      *)
(* meter renderer and draws neither meter nor loudness text; with a stem's *)
(* loudness missing, compose_stemmogram draws only the stem's label.  A    *)
(* meter or loudness text that is drawn shows the loudness that was        *)
(* reported, and a range figure only when a range was reported.            *)
(***************************************************************************)
C9_NothingDrawnForMissingLoudness ==
    /\ HeaderDrawn =>
        /\ probe.lufs = None =>
              /\ header.meter_calls = <<>>
              /\ ~header.meter_pasted
              /\ header.lufs_text = None
        /\ \A i \in 1..Len(header.meter_calls) :
              /\ probe.lufs # None
              /\ header.meter_calls[i].lufs = The(probe.lufs)
              /\ header.meter_calls[i].lra = probe.lra
        /\ header.meter_pasted => Len(header.meter_calls) = 1
        /\ header.lufs_text # None =>
              /\ probe.lufs # None
              /\ The(header.lufs_text) = [lufs |-> The(probe.lufs), lra |-> probe.lra]
    /\ hdr_pc = "composed" =>
        \A i \in 1..Len(STEMS) :
            LET measured == stem_metadata[STEMS[i]]
            IN  /\ labels[i].label_text = STEMS[i]
                /\ measured.lufs = None => labels[i].stats_text = None
                /\ labels[i].stats_text # None =>
                      /\ measured.lufs # None
                      /\ The(labels[i].stats_text) =
                            [lufs |-> The(measured.lufs), lra |-> measured.lra]

\* no track loudness and no loudness for the bass: the image is composed, with
\* no meter, and with a loudness text on the vocals strip only
C9_Witness ==
    /\ hdr_pc = "composed"
    /\ probe.lufs = None
    /\ header.meter_calls = <<>>
    /\ header.lufs_text = None
    /\ stem_metadata["bass"].lufs = None
    /\ labels[3].stats_text = None
    /\ stem_metadata["vocals"].lufs # None
    /\ labels[1].stats_text # None

(***************************************************************************)
(* C10: each of the header's summary statistics (duration, bitrate, sample *)
(* rate, mean level, peak level) is shown as the not-available placeholder *)
(* whenever the metadata extractor does not report it.                     *)
(***************************************************************************)
C10_MissingStatIsPlaceholder ==
    HeaderDrawn =>
        /\ probe.duration = None => header.stats.duration = NA
        /\ probe.bit_rate = None => header.stats.bitrate = NA
        /\ probe.sample_rate = None => header.stats.sample_rate = NA
        /\ probe.mean_volume = None => header.stats.mean_volume = NA
        /\ probe.max_volume = None => header.stats.max_volume = NA

(***************************************************************************)
(*                    claims about the range bar                           *)
(***************************************************************************)
Columns == 0..(width - 1)

\* the segments whose "if overlap_min < overlap_max" branch was entered
Overlapping == {i \in 1..Len(zones) : bar.segments[i].overlap}
Drawn == {i \in 1..Len(zones) : bar.segments[i].drawn}

\* every edge other than center_x that the function computes
BarEdges ==
    {bar.bar_left, bar.bar_right, bar.marker_left, bar.marker_right}
        \cup {bar.segments[i].x_left : i \in Overlapping}
        \cup {bar.segments[i].x_right : i \in Overlapping}

(***************************************************************************)
(* C5 as stated: for every loudness and range, lufs_to_x of the clamped    *)
(* loudness (center_x) and the bar, zone-segment and marker edges all lie  *)
(* in [0, width - 1].                                                      *)
(***************************************************************************)
C5_Original ==
    bar_pc = "drawn" =>
        /\ bar.center_x \in Columns
        /\ BarEdges \subseteq Columns

(***************************************************************************)
(* C5 as amended: center_x lies in [0, width] and is width exactly when    *)
(* the loudness is lufs_max (0) or above; the bar, zone-segment and marker *)
(* edges, which are clamped to the bar, all lie in [0, width - 1].         *)
(***************************************************************************)
C5_EdgesInImage ==
    bar_pc = "drawn" =>
        /\ bar.center_x \in 0..width
        /\ (bar.center_x = width <=> lufs_value >= lufs_max * Res)
        /\ BarEdges \subseteq Columns
        /\ bar.bar_left <= bar.bar_right
        /\ bar.marker_left <= bar.marker_right

\* a bar drawn for a loudness above the scale: the marker is clamped to the
\* last column
C5_Witness ==
    /\ bar_pc = "drawn"
    /\ lufs_value > lufs_max * Res
    /\ bar.center_x = width
    /\ bar.marker_right = width - 1
    /\ Drawn # {}

\* the column of the boundary between zones[i] and zones[i + 1]
BoundaryX(i) == lufs_to_x(Lit(zones[i].zone_max), width)

Boundaries == 1..(Len(zones) - 1)

UnderMarker(x) == bar.marker_left <= x /\ x <= bar.marker_right

\* the colour of column x in the finished image, on the row no bracket reaches
Colour(x) == PixelAt(bar.draws, x, MidRow)

(***************************************************************************)
(* C6 as stated: at each zone boundary (-18, -14, -9) the bar covers, the  *)
(* pixel column lufs_to_x(boundary) ends up in the colour of the lower     *)
(* (quieter) of the two adjacent zones: blue at -18, green at -14, orange  *)
(* at -9.  (Columns the centre marker overpaints are left out.)            *)
(***************************************************************************)
C6_Original ==
    bar_pc = "drawn" =>
        \A i \in Boundaries :
            ( /\ bar.bar_left <= BoundaryX(i) /\ BoundaryX(i) <= bar.bar_right
              /\ ~UnderMarker(BoundaryX(i)) )
            => Colour(BoundaryX(i)) = Opaque(zones[i].color)

(***************************************************************************)
(* C6 as amended: at each zone boundary whose column the bar covers and    *)
(* the centre marker does not overpaint, the column is in exactly one zone *)
(* colour, that of the upper (louder) zone: green at -18, orange at -14,   *)
(* red at -9; only when the column is the bar's last one (bar_right) does  *)
(* it keep the lower zone's colour.                                        *)
(***************************************************************************)
C6_BoundaryColumn ==
    bar_pc = "drawn" =>
        \A i \in Boundaries :
            ( /\ bar.bar_left <= BoundaryX(i) /\ BoundaryX(i) <= bar.bar_right
              /\ ~UnderMarker(BoundaryX(i)) )
            => Colour(BoundaryX(i)) =
                    IF BoundaryX(i) = bar.bar_right
                    THEN Opaque(zones[i].color)
                    ELSE Opaque(zones[i + 1].color)

\* a bar across -18 whose two rectangles both hold the boundary's column
C6_Witness ==
    /\ bar_pc = "drawn"
    /\ {1, 2} \subseteq Drawn
    /\ bar.segments[1].x_right = BoundaryX(1)
    /\ bar.segments[2].x_left = BoundaryX(1)
    /\ ~UnderMarker(BoundaryX(1))
    /\ Colour(BoundaryX(1)) = Opaque(Green)

\* the pixel interval of the loudness interval [lo, hi] when neither end is
\* adjusted: lo and hi as exact values, whichever way a whole pixel rounds
PixelsOf(n) ==
    {lufs_to_x([n |-> n, e |-> 0, rnd |-> r], width) : r \in {0, 1}}

(***************************************************************************)
(* C7 as stated: the bar spans exactly [L - R/2, L + R/2] cut to the       *)
(* domain [-30, 0], with R = 6 when R is missing and no other adjustment   *)
(* of R: its first and last columns are the pixels of L - R/2 and L + R/2, *)
(* cut to the image.                                                       *)
(***************************************************************************)
C7_Original ==
    bar_pc = "drawn" =>
        LET half == ClampLraNone(lra_value) \div 2
        IN  /\ \E x \in PixelsOf(lufs_value - half) : bar.bar_left = Max(0, x)
            /\ \E x \in PixelsOf(lufs_value + half) : bar.bar_right = Min(width - 1, x)

(***************************************************************************)
(* C7 as amended: with Lc the loudness clamped into [-30, 0] and Rc the    *)
(* range (6 when missing) clamped into [2, 20], the coloured bar spans     *)
(* exactly the columns of [Lc - Rc/2, Lc + Rc/2] cut to [0, width - 1]:    *)
(* the zone rectangles drawn cover every one of these columns and no       *)
(* other.                                                                  *)
(***************************************************************************)
C7_BarSpan ==
    bar_pc = "drawn" =>
        LET Lc == IF lufs_value < -30 * Res THEN -30 * Res
                  ELSE IF lufs_value > 0 THEN 0 ELSE lufs_value
            R0 == IF lra_value = None THEN 6 * Res ELSE The(lra_value)
            Rc == IF R0 < 2 * Res THEN 2 * Res
                  ELSE IF R0 > 20 * Res THEN 20 * Res ELSE R0
        IN  /\ \E x \in PixelsOf(Lc - Rc \div 2) : bar.bar_left = Max(0, x)
            /\ \E x \in PixelsOf(Lc + Rc \div 2) : bar.bar_right = Min(width - 1, x)
            /\ \A x \in Columns :
                  (\E i \in Drawn : bar.segments[i].x_left <= x
                                    /\ x <= bar.segments[i].x_right)
                  <=> (bar.bar_left <= x /\ x <= bar.bar_right)

\* a range under 2 widened to 2, and a loudness under the scale moved to -30
C7_Witness ==
    /\ bar_pc = "drawn"
    /\ lra_value # None
    /\ The(lra_value) < lra_floor * Res
    /\ lufs_value < lufs_min * Res
    /\ bar.bar_left = 0
    /\ bar.bar_right = lufs_to_x(Lit(lufs_min + 1), width)

\* the zone colours left in the finished image
ZoneColours ==
    {Colour(x) : x \in bar.bar_left..bar.bar_right}
        \cap {Opaque(zones[i].color) : i \in 1..Len(zones)}

\* zones[i] holds [lo, hi]; the quiet zone is open below, the too-loud zone
\* above ("< -18" and "> -9" in the docstring)
Inside(i, lo, hi) ==
    /\ (i = 1 \/ zones[i].zone_min * Res <= lo)
    /\ (i = Len(zones) \/ hi <= zones[i].zone_max * Res)

StrictlyInside(i, lo, hi) ==
    /\ (i = 1 \/ zones[i].zone_min * Res < lo)
    /\ (i = Len(zones) \/ hi < zones[i].zone_max * Res)

(***************************************************************************)
(* C8 as stated: when [L - R/2, L + R/2] lies entirely inside one zone,    *)
(* exactly one zone rectangle is drawn and the bar is a single solid       *)
(* colour; when it straddles a zone boundary, both adjacent zone colours   *)
(* appear.                                                                 *)
(***************************************************************************)
C8_Original ==
    bar_pc = "drawn" =>
        LET half == ClampLraNone(lra_value) \div 2
            lo == lufs_value - half
            hi == lufs_value + half
        IN  /\ \A i \in 1..Len(zones) :
                  Inside(i, lo, hi) =>
                      /\ Cardinality(Drawn) = 1
                      /\ ZoneColours = {Opaque(zones[i].color)}
            /\ \A i \in Boundaries :
                  (lo < zones[i].zone_max * Res /\ zones[i].zone_max * Res < hi)
                  => {Opaque(zones[i].color), Opaque(zones[i + 1].color)}
                        \subseteq ZoneColours

(***************************************************************************)
(* C8 as amended: with the bar's interval [Lc - Rc/2, Lc + Rc/2] taken     *)
(* from the clamped loudness and the clamped range: when it lies strictly  *)
(* inside one zone, exactly one zone rectangle is drawn and every column   *)
(* of the bar is that zone's colour or the centre marker; when the bar's   *)
(* columns straddle the column of a zone boundary (bar_left < x(b) <       *)
(* bar_right), both adjacent zone colours appear.                          *)
(***************************************************************************)
C8_ZoneColours ==
    bar_pc = "drawn" =>
        /\ \A i \in 1..Len(zones) :
              StrictlyInside(i, bar.bar_lufs_left, bar.bar_lufs_right) =>
                  /\ Cardinality(Drawn) = 1
                  /\ \A x \in bar.bar_left..bar.bar_right :
                        Colour(x) \in {Opaque(zones[i].color), MarkerFill}
                  /\ ZoneColours = {Opaque(zones[i].color)}
        /\ \A i \in Boundaries :
              (bar.bar_left < BoundaryX(i) /\ BoundaryX(i) < bar.bar_right)
              => {Opaque(zones[i].color), Opaque(zones[i + 1].color)}
                    \subseteq ZoneColours

\* loudness -23.0 with range 6: [-26, -20], one blue rectangle
C8_Witness ==
    /\ bar_pc = "drawn"
    /\ lufs_value = -23 * Res
    /\ lra_value = Some(6 * Res)
    /\ bar.bar_lufs_left = -26 * Res
    /\ bar.bar_lufs_right = -20 * Res
    /\ Drawn = {1}
    /\ ZoneColours = {Opaque(Blue)}


(***************************************************************************)
(*                     claims about the time markers                       *)
(***************************************************************************)
\* round(num / den) as Python rounds: to the nearest whole number, a half to
\* the even neighbour
Round(num, den) ==
    LET q == num \div den
        r == num % den
    IN  IF 2 * r < den THEN q
        ELSE IF 2 * r > den THEN q + 1
        ELSE IF q % 2 = 0 THEN q ELSE q + 1

\* the times 30, 60, 90, ... below a duration of d tenths of a second
DueTimes(d) ==
    {marker_step * i : i \in {j \in 1..(d \div (10 * marker_step) + 1) :
                                 marker_step * j * 10 < d}}

Abs(n) == IF n < 0 THEN -n ELSE n

\* what has been drawn so far is right, and once compose_stemmogram has
\* returned all of it has been drawn
C11_Drawn ==
    /\ mk_pc \in {"loop", "returned"} /\ mk_duration > 0 =>
          /\ overlay
          /\ \A i \in 1..Len(markers) :
                /\ markers[i].t = marker_step * i
                /\ markers[i].t \in DueTimes(mk_duration)
                /\ markers[i].line.x0 = markers[i].line.x1
                /\ Abs(markers[i].line.x0
                       - Round(markers[i].t * 10 * WIDTH, mk_duration)) <= 1
                /\ markers[i].line.x0 >= 0
                /\ markers[i].line.x0 <= WIDTH - 1
    /\ mk_pc = "returned" /\ mk_duration > 0 =>
          /\ {markers[i].t : i \in 1..Len(markers)} = DueTimes(mk_duration)
          /\ Len(markers) = Cardinality(DueTimes(mk_duration))
    /\ mk_pc = "returned" /\ ~(mk_duration > 0) =>
          /\ markers = <<>>
          /\ overlay = FALSE

(***************************************************************************)
(* C11: for every positive duration d, compose_stemmogram draws a time     *)
(* marker for exactly the times t = 30, 60, 90, ... with t < d, each once, *)
(* at an x within one pixel of round(t/d*WIDTH) and inside the canvas      *)
(* (0 <= x <= WIDTH-1); for a duration that is zero or was not reported no *)
(* marker is drawn and no overlay is made; and the marker loop terminates: *)
(* compose_stemmogram returns.                                             *)
(***************************************************************************)
C11_TimeMarkers == []C11_Drawn /\ <>(mk_pc = "returned")

\* a duration of 185.4 s has got its markers at 30, 60, ..., 180 s
C11_Witness ==
    /\ mk_pc = "returned"
    /\ mk_probe = Some(1854)
    /\ {markers[i].t : i \in 1..Len(markers)} = {30, 60, 90, 120, 150, 180}
    /\ markers[6].label = <<"m:ss", 3, 0>>


(***************************************************************************)
(*                claims about the stem loudness record                    *)
(***************************************************************************)
\* the stems of the loaded record r that have no entry, or an entry without
\* the integrated-loudness scalar
Gaps(r) == {st \in Stems : IF HasEntry(st, r) THEN r[st].lufs = None ELSE TRUE}

\* the stems the loop has passed
Passed == {STEMS[i] : i \in 1..(stem_i - 1)}

\* the stems measure_stem_loudness was called for
Remeasured == {measure_calls[i] : i \in 1..Len(measure_calls)}

(***************************************************************************)
(* C12: when a cached loudness record has been loaded, the stems measured  *)
(* again are exactly those with no entry in it or with an entry that lacks *)
(* the integrated-loudness scalar, each measured once; every stem whose    *)
(* loaded entry has the scalar keeps that entry unchanged; and once the    *)
(* loop is over all four stems have an entry.                              *)
(***************************************************************************)
C12_OnlyGapsRemeasured ==
    sl_pc \in {"measure", "done"} /\ loaded # None =>
        /\ Remeasured = Gaps(The(loaded)) \cap Passed
        /\ Len(measure_calls) = Cardinality(Remeasured)
        /\ \A st \in Stems \ Gaps(The(loaded)) :
              stem_metadata[st] = The(loaded)[st]
        /\ sl_pc = "done" =>
              /\ Passed = Stems
              /\ \A st \in Stems : HasEntry(st, stem_metadata)

\* a record with a full entry, an entry without the scalar and two stems
\* missing has been completed: three stems were measured, one kept
C12_Witness ==
    /\ sl_pc = "done"
    /\ loaded # None
    /\ Gaps(The(loaded)) = {"other", "bass", "drums"}
    /\ HasEntry("other", The(loaded))
    /\ ~HasEntry("bass", The(loaded))
    /\ measure_calls = <<"other", "bass", "drums">>
    /\ stem_metadata["vocals"] = [lufs |-> Some(0), lra |-> None]
    /\ stem_metadata["other"].lufs = Some(-201)


(***************************************************************************)
(*               claims about the life of a cache entry                    *)
(***************************************************************************)
\* The run that separates under a key and whose separate_stems returns has
\* created the key's entry, which was not complete before; an entry created
\* by an earlier run is complete, and a run with its key that gets to
\* separate_stems takes the cached paths and neither separates nor copies.
C13_Entries ==
    /\ commit = "ok" =>
          /\ Truthy(cache_id)
          /\ separator_ran
          /\ The(cache_id) \in cache_dirs
          /\ cache[The(cache_id)] = Stems
          /\ before.cache[The(cache_id)] # Stems
          /\ The(cache_id) \notin before.created
    /\ \A k \in before.created :
          /\ cache[k] = Stems
          /\ cache_id = Some(k) /\ SeparateActed =>
                /\ ~separator_ran
                /\ commit = "none"
                /\ stem_paths = AllAt("cache")

\* no step removes a stem file or a directory of the cache
C13_Grows ==
    /\ \A k \in Keys : cache[k] \subseteq cache'[k]
    /\ cache_dirs \subseteq cache_dirs'

(***************************************************************************)
(* C13: over any sequence of runs, the first run with a given key whose    *)
(* separation succeeds (separate_stems separates and returns) creates the  *)
(* key's cache entry; every later run with that key that reaches           *)
(* separate_stems is a hit, which reuses the entry and does not separate   *)
(* again; and no step of any run removes a stem file of any entry: the set *)
(* of cached stem files only grows.                                        *)
(***************************************************************************)
C13_EntryLifecycle == []C13_Entries /\ [][C13_Grows]_vars

\* the third run has reused the entry that an earlier run created
C13_Witness ==
    /\ runs = 3
    /\ before.created = {"trackA"}
    /\ cache_id = Some("trackA")
    /\ pc = "done"
    /\ ~separator_ran
    /\ stem_paths = AllAt("cache")

=============================================================================
